---- MODULE Spec2Model ----
(***************************************************************************)
(* Progress tracking of the AI-tutor backend, for one user (every document *)
(* below is keyed by the uid, so one uid is followed):                     *)
(*   learningProgress/{uid}   completed_lessons, current_lesson,           *)
(*                            total_time_spent         (models/user.py)    *)
(*   lessonProgress/{uid}_{lesson_id}                  (models/lesson.py)  *)
(*   lessons/{lesson_id}      the catalog              (models/lesson.py)  *)
(*   userActivity             the activity log         (models/analytics)  *)
(* A Python dict is a record over a fixed set of keys: a key the dict does *)
(* not hold has the value Missing, a key holding None has NoneVal.  Keys   *)
(* that no operation modelled here reads back (title, notes,               *)
(* last_position, the progress fraction, the last_accessed / updated_at /  *)
(* last_active stamps) are left out of the records.                        *)
(***************************************************************************)
EXTENDS Integers, Sequences, FiniteSets, TLC

\* ------------------------------------------------------------------ bounds
MaxTimeSpent == 1      \* time_spent of a request ranges over 0..MaxTimeSpent
MaxScore == 1          \* score of a request: None or 1..MaxScore
MaxNow == 0            \* datetime.now() ranges over 0..MaxNow
MaxTotal == 3          \* requests that take total_time_spent above it are cut
MaxDeficit == 0        \* requests that take total_time_spent below -MaxDeficit are cut
MaxEvents == 1         \* userActivity documents created
MaxLimit == 2          \* limit of a recommendation request ranges over 1..MaxLimit
MaxRepeat == 3         \* copies of one event in a stored activity log
MaxSubjectEvents == 2  \* events of a log whose events reference lessons
MaxSkip == 2           \* skip of a /my-lessons request ranges over 0..MaxSkip
MaxQuestions == 3      \* questions asked
MaxStreakEvents == 4   \* events of a log drawn from the instants around a request
StreakSpan == 35       \* days of a log with one event every day

\* ------------------------------------------------------------- value sets
NoneVal == -1
Missing == -2

LessonIds == {"a", "b"}
SeededLessons == {"a"}
TimeSpent == 0..MaxTimeSpent
Scores == {NoneVal} \cup (1..MaxScore)
Times == 0..MaxNow
TotalRange == (0 - MaxDeficit)..MaxTotal
ActivityTypes == {"lesson_completion", "progress_update", "question_asked"}
Procs == {"p", "q"}
CatalogOrder == <<"a", "b", "c">>
CatalogIds == {CatalogOrder[i] : i \in DOMAIN CatalogOrder}
Limits == 1..MaxLimit
Failures == {"none", "catalog", "progress"}
TimeRanges == {"day", "week", "month", "year", "fortnight"}

VARIABLES
    learningProgress,   \* the learningProgress document of the user
    lessonProgress,     \* lesson_id -> the lessonProgress document of the user
    lessons,            \* ids of the documents of the lessons collection
    userActivity,       \* the userActivity documents, in creation order
    last,               \* the last update_lesson_progress call and how it ended
    pc,                 \* per worker thread: "idle", "read" (document read), "done"
    call,               \* per worker thread: the request, the document read, the outcome
    base,               \* the document stored before the concurrent requests began
    writer,             \* the thread that wrote learningProgress last ("" if none)
    response,           \* what the last read request (recommendations) returned
    qa                  \* the qa documents and the /ask request in progress

vars == <<learningProgress, lessonProgress, lessons, userActivity, last,
          pc, call, base, writer, response, qa>>

threads == <<pc, call, base, writer>>

\* ------------------------------------------------------------ documents
\* current_lesson: the key is missing, holds null, or holds a dict
MissingKey == [kind |-> "missing"]
Null == [kind |-> "null"]
Dict(d) == [kind |-> "dict", val |-> d]

\* doc.exists is False: nothing stored
NoDoc ==
    [exists |-> FALSE, completed_lessons |-> <<>>, current_lesson |-> MissingKey,
     total_time_spent |-> 0]

NoLessonProgress == [exists |-> FALSE, completed |-> FALSE]

\* progress.dict() of a LessonProgressUpdate, with lesson_id set
ProgressData(lesson_id, completed, time_spent, score) ==
    [lesson_id |-> lesson_id, completed |-> completed, time_spent |-> time_spent,
     score |-> score, completion_date |-> Missing]

\* d.get(key, default) on an integer-valued key
DictGet(v, default) == IF v = Missing THEN default ELSE v

\* record.update(progress_data): every key progress_data holds overwrites
DictUpdate(rec, pd) ==
    [lesson_id |-> pd.lesson_id,
     completed |-> pd.completed,
     time_spent |-> pd.time_spent,
     score |-> pd.score,
     completion_date |-> IF pd.completion_date # Missing THEN pd.completion_date
                         ELSE rec.completion_date]

\* next((i for i, lesson in enumerate(completed_lessons)
\*       if lesson.get("lesson_id") == lesson_id), None); 0 stands for None
ExistingIndexNone(completed_lessons, lesson_id) == 0

ExistingIndex(completed_lessons, lesson_id) ==
    LET hits == {i \in DOMAIN completed_lessons :
                    completed_lessons[i].lesson_id = lesson_id}
    IN IF hits = {} THEN 0 ELSE CHOOSE i \in hits : \A j \in hits : i <= j

\* ------------------------------------------ models.user.update_lesson_progress
\* completed_lessons[existing_index].update(progress_data) / .append(progress_data)
MergeCompleted(completed_lessons, existing_index, pd) ==
    IF existing_index # 0
    THEN [completed_lessons EXCEPT ![existing_index] = DictUpdate(@, pd)]
    ELSE Append(completed_lessons, pd)

RecordedTimeSpentZero(completed_lessons, existing_index) == 0

\* The subtrahend of the total: completed_lessons[existing_index] is read after
\* the branch above has run, so for a completion it is the merged dict.
RecordedTimeSpent(completed_lessons, existing_index) ==
    IF existing_index # 0
    THEN DictGet(completed_lessons[existing_index].time_spent, 0)
    ELSE 0

\* current_data.get("current_lesson", {}).get("lesson_id"): the default {} is
\* used only when the key is missing; a stored null gives None.get(...), which
\* raises AttributeError
CurrentLessonRaises(current_lesson) == current_lesson.kind = "null"

NewCurrentKeep(current_lesson, pd) ==
    IF pd.completed THEN current_lesson ELSE Dict(pd)

NewCurrentFirst(current_lesson, pd) ==
    IF pd.completed
    THEN IF current_lesson.kind = "dict" /\ current_lesson.val.lesson_id = pd.lesson_id
         THEN Null ELSE current_lesson
    ELSE IF current_lesson.kind = "dict" THEN current_lesson ELSE Dict(pd)

\* what the if/else leaves in current_data["current_lesson"]
NewCurrent(current_lesson, pd) ==
    IF pd.completed
    THEN IF current_lesson.kind = "dict" /\ current_lesson.val.lesson_id = pd.lesson_id
         THEN Null ELSE current_lesson
    ELSE Dict(pd)

\* _update_lesson_progress between doc_ref.get() and the write, on the document
\* `doc` it read: whether it gets to the write, and current_data at the write
ApplyUpdate(doc, pd) ==
    LET current_data == IF doc.exists THEN doc ELSE NoDoc
        existing_index == ExistingIndex(current_data.completed_lessons, pd.lesson_id)
        completed_lessons ==
            IF pd.completed
            THEN MergeCompleted(current_data.completed_lessons, existing_index, pd)
            ELSE current_data.completed_lessons
    IN IF pd.completed /\ CurrentLessonRaises(current_data.current_lesson)
       THEN [ok |-> FALSE, data |-> current_data]
       ELSE [ok |-> TRUE,
             data |-> [exists |-> TRUE,
                       completed_lessons |-> completed_lessons,
                       current_lesson |-> NewCurrent(current_data.current_lesson, pd),
                       total_time_spent |->
                           current_data.total_time_spent
                             + (pd.time_spent
                                  - RecordedTimeSpent(completed_lessons, existing_index))]]

\* doc_ref.update(current_data) when the document read existed (the keys of
\* current_data replace the stored ones), doc_ref.set(current_data) otherwise
StoreWrite(stored, read, data) ==
    IF read.exists
    THEN [stored EXCEPT
            !.completed_lessons = data.completed_lessons,
            !.total_time_spent = data.total_time_spent,
            !.current_lesson = IF data.current_lesson.kind = "missing" THEN @
                               ELSE data.current_lesson]
    ELSE data

\* the stored document after the whole call, run alone
AfterUpdate(doc, pd) ==
    LET r == ApplyUpdate(doc, pd)
    IN IF r.ok THEN StoreWrite(doc, doc, r.data) ELSE doc

Request(pd, ok) ==
    [called |-> TRUE, lesson_id |-> pd.lesson_id, completed |-> pd.completed, ok |-> ok]

NoRequest == [called |-> FALSE, lesson_id |-> "", completed |-> FALSE, ok |-> TRUE]

UpdateLessonProgress(lesson_id, completed, time_spent, score) ==
    LET pd == ProgressData(lesson_id, completed, time_spent, score)
        doc == AfterUpdate(learningProgress, pd)
    IN /\ doc.total_time_spent \in TotalRange
       /\ learningProgress' = doc
       /\ last' = Request(pd, ApplyUpdate(learningProgress, pd).ok)
       /\ UNCHANGED <<qa, response, lessonProgress, lessons, userActivity, threads>>

\* -------------------------------------------- models.user.get_lesson_progress
NoResponse == [kind |-> "none"]
RaisedResponse == [kind |-> "raised"]

\* the dict returned for a record: it holds no completion_date key
FormatResponse(lesson_progress) ==
    [kind |-> "found",
     time_spent |-> DictGet(lesson_progress.time_spent, 0),
     completed |-> lesson_progress.completed,
     score |-> DictGet(lesson_progress.score, NoneVal),
     completion_date |-> Missing]

GetLessonProgressCurrentOnly(doc, lesson_id) ==
    IF doc.current_lesson.kind = "dict" /\ doc.current_lesson.val.lesson_id = lesson_id
    THEN FormatResponse(doc.current_lesson.val)
    ELSE NoResponse

GetLessonProgress(doc, lesson_id) ==
    LET i == ExistingIndex(doc.completed_lessons, lesson_id)
    IN IF ~doc.exists THEN NoResponse
       ELSE IF i # 0 THEN FormatResponse(doc.completed_lessons[i])
       ELSE IF CurrentLessonRaises(doc.current_lesson) THEN RaisedResponse
       ELSE IF doc.current_lesson.kind = "dict"
               /\ doc.current_lesson.val.lesson_id = lesson_id
            THEN FormatResponse(doc.current_lesson.val)
       ELSE NoResponse

\* ------------------------------------------------ routes.lessons.track_progress
\* models.lesson.update_lesson_progress: every key of progress_data overwrites
\* the lessonProgress document, which is created when absent
UpdateLessonProgressDoc(doc, pd) == [exists |-> TRUE, completed |-> pd.completed]

\* the record the route appends
CompletionRecord(pd, date) ==
    [lesson_id |-> pd.lesson_id, completed |-> TRUE, time_spent |-> pd.time_spent,
     score |-> pd.score, completion_date |-> date]

\* the route's own update of learningProgress, through update_learning_progress
\* (set when absent, update of the two keys otherwise)
TrackLearningProgress(doc, pd, date) ==
    IF /\ pd.completed
       /\ pd.lesson_id \in lessons
       /\ ExistingIndex(doc.completed_lessons, pd.lesson_id) = 0
    THEN [doc EXCEPT !.exists = TRUE,
                     !.completed_lessons = Append(@, CompletionRecord(pd, date)),
                     !.total_time_spent = @ + pd.time_spent]
    ELSE doc

TrackProgress(lesson_id, completed, time_spent, score, date) ==
    LET pd == ProgressData(lesson_id, completed, time_spent, score)
        doc == TrackLearningProgress(learningProgress, pd, date)
    IN /\ doc.total_time_spent \in TotalRange
       /\ lessonProgress' =
            [lessonProgress EXCEPT ![lesson_id] = UpdateLessonProgressDoc(@, pd)]
       /\ learningProgress' = doc
       /\ UNCHANGED <<qa, response, lessons, userActivity, last, threads>>

\* ------------------------------------------------------- other operations
\* models.lesson.generate_lesson: a lesson document under a fresh id
GenerateLesson(lesson_id) ==
    /\ lesson_id \notin lessons
    /\ lessons' = lessons \cup {lesson_id}
    /\ UNCHANGED <<qa, response, learningProgress, lessonProgress, userActivity, last, threads>>

\* models.analytics.log_user_activity: lesson_id is stored when truthy ("" stands
\* for a call without it), time_spent and score when not None (NoneVal stands
\* for the key left out)
ActivityData(type, lesson_id, time_spent, score, date) ==
    [type |-> type, timestamp |-> date, lesson_id |-> lesson_id,
     time_spent |-> time_spent, score |-> score]

LogUserActivity(type, lesson_id, time_spent, score, date) ==
    /\ Len(userActivity) < MaxEvents
    /\ userActivity' =
         Append(userActivity, ActivityData(type, lesson_id, time_spent, score, date))
    /\ UNCHANGED <<qa, response, learningProgress, lessonProgress, lessons, last, threads>>

\* ------------------------------------ models.lesson.get_recommended_lessons
NoReply == [kind |-> "idle"]
ReturnedNone == [kind |-> "None"]
ReturnedList(items) == [kind |-> "list", lessons |-> items]

\* db.collection("lessons")...stream(): the documents in the order of their ids
Stream(catalog) == SelectSeq(CatalogOrder, LAMBDA id : id \in catalog)

\* query.limit(n)
Limit(docs, n) == SubSeq(docs, 1, IF n < Len(docs) THEN n ELSE Len(docs))

\* _get_available_lessons: at most limit * 2 documents of the collection
AvailableLessons(catalog, limit) == Limit(Stream(catalog), limit * 2)

CompletedLessonIdsNone(doc) == {}

\* completed_lesson_ids, from get_learning_progress (None without a document)
CompletedLessonIds(doc) ==
    IF doc.exists
    THEN {doc.completed_lessons[i].lesson_id : i \in DOMAIN doc.completed_lessons}
    ELSE {}

\* doc.to_dict() of the lessons documents: the keys the ranking is described
\* over (created_at as the age of the lesson in days)
LessonData(id) ==
    CASE id = "a" -> [subject |-> "Mathematics", difficulty |-> "beginner",
                      tags |-> {"algebra"}, age_days |-> 50]
      [] id = "b" -> [subject |-> "Physics", difficulty |-> "advanced",
                      tags |-> {}, age_days |-> 100]
      [] OTHER    -> [subject |-> "Mathematics", difficulty |-> "beginner",
                      tags |-> {"algebra", "equations"}, age_days |-> 2]

\* a lesson of the result: the lesson data with its id and the fixed
\* recommendation_reason; no relevance_score key is set
Recommendation(id) ==
    [id |-> id, data |-> LessonData(id), relevance_score |-> Missing]

\* the filter loop, with its break once `limit` lessons are kept
RECURSIVE RecommendedLessons(_, _, _, _)
RecommendedLessons(all_lessons, completed_lesson_ids, limit, recommended_lessons) ==
    IF all_lessons = <<>> THEN recommended_lessons
    ELSE IF Head(all_lessons) \notin completed_lesson_ids
    THEN LET kept == Append(recommended_lessons, Recommendation(Head(all_lessons)))
         IN IF Len(kept) >= limit THEN kept
            ELSE RecommendedLessons(Tail(all_lessons), completed_lesson_ids, limit, kept)
    ELSE RecommendedLessons(Tail(all_lessons), completed_lesson_ids, limit,
                            recommended_lessons)

\* the first `except Exception` clause logs and falls off the end of the
\* function: the call returns None (the second clause, with return [], is
\* never selected)
OnFailure == ReturnedNone

\* failing: "none", or the read that raises ("catalog", "progress")
GetRecommendedLessons(limit, failing) ==
    /\ response' =
         IF failing # "none" THEN OnFailure
         ELSE ReturnedList(RecommendedLessons(AvailableLessons(lessons, limit),
                                              CompletedLessonIds(learningProgress),
                                              limit, <<>>))
    /\ UNCHANGED <<qa, learningProgress, lessonProgress, lessons, userActivity, last,
                   threads>>

\* ------------------------------------------------------- datetime, timedelta
\* A datetime is the number of hours since 2023-01-01 00:00 (the dashboard
\* builds every boundary on the hour); a date is the number of days since
\* 2023-01-01.
Years == 2023..2026

IsLeap(year) == year % 4 = 0 /\ (year % 100 # 0 \/ year % 400 = 0)

DaysInMonth(year, month) ==
    IF month = 2 THEN (IF IsLeap(year) THEN 29 ELSE 28)
    ELSE IF month \in {4, 6, 9, 11} THEN 30 ELSE 31

RECURSIVE DaysBeforeYear(_)
DaysBeforeYear(year) ==
    IF year <= 2023 THEN 0
    ELSE DaysBeforeYear(year - 1) + (IF IsLeap(year - 1) THEN 366 ELSE 365)

RECURSIVE DaysBeforeMonth(_, _)
DaysBeforeMonth(year, month) ==
    IF month <= 1 THEN 0
    ELSE DaysBeforeMonth(year, month - 1) + DaysInMonth(year, month - 1)

\* datetime(year, month, day).date()
DateOf(year, month, day) ==
    DaysBeforeYear(year) + DaysBeforeMonth(year, month) + (day - 1)

\* datetime(year, month, day, hour, 0, 0)
DateTime(year, month, day, hour) == DateOf(year, month, day) * 24 + hour

\* dt.date(), dt.hour
Date(dt) == dt \div 24
Hour(dt) == dt % 24

\* the year, month and day of every date of Years
Calendar ==
    [date \in 0..(DateOf(2027, 1, 1) - 1) |->
        LET y == CHOOSE y \in Years :
                    DateOf(y, 1, 1) <= date /\ date < DateOf(y + 1, 1, 1)
            m == CHOOSE m \in 1..12 :
                    /\ DateOf(y, m, 1) <= date
                    /\ date < DateOf(y, m, 1) + DaysInMonth(y, m)
        IN [year |-> y, month |-> m, day |-> date - DateOf(y, m, 1) + 1]]

\* dt.year, dt.month, dt.day
Year(dt) == Calendar[Date(dt)].year
Month(dt) == Calendar[Date(dt)].month
Day(dt) == Calendar[Date(dt)].day

\* dt.weekday(): Monday is 0; 2023-01-01 was a Sunday
Weekday(dt) == (Date(dt) + 6) % 7

\* dt + timedelta(days=days), dt + timedelta(hours=hours)
PlusDays(dt, days) == dt + days * 24
PlusHours(dt, hours) == dt + hours

\* ------------------------------------ models.analytics.get_dashboard_metrics
\* A float is kept as the exact fraction num / den, den > 0.
Frac(num, den) == [num |-> num, den |-> den]

\* start_date, prev_start_date, prev_end_date; the else branch repeats "week"
StartOfDay(dt) == DateTime(Year(dt), Month(dt), Day(dt), 0)

StartDate(now, time_range) ==
    CASE time_range = "day" -> StartOfDay(now)
      [] time_range = "month" -> DateTime(Year(now), Month(now), 1, 0)
      [] time_range = "year" -> DateTime(Year(now), 1, 1, 0)
      [] OTHER -> StartOfDay(PlusDays(now, 0 - Weekday(now)))

PrevStartDateThirtyDays(now, time_range) ==
    PlusDays(StartDate(now, time_range), 0 - 30)

PrevStartDate(now, time_range) ==
    CASE time_range = "day" -> PlusDays(StartDate(now, time_range), 0 - 1)
      [] time_range = "month" ->
            IF Month(now) = 1 THEN DateTime(Year(now) - 1, 12, 1, 0)
            ELSE DateTime(Year(now), Month(now) - 1, 1, 0)
      [] time_range = "year" -> DateTime(Year(now) - 1, 1, 1, 0)
      [] OTHER -> PlusDays(StartDate(now, time_range), 0 - 7)

PrevEndDate(now, time_range) ==
    IF time_range = "month" /\ Month(now) = 1
    THEN DateTime(Year(now), Month(now), 1, 0)
    ELSE StartDate(now, time_range)

\* _get_period_activity: timestamp >= start_date, and timestamp < end_date when
\* an end_date is given (NoneVal: none); every document is of the one user
PeriodActivity(events, start_date, end_date) ==
    SelectSeq(events, LAMBDA item :
        /\ item.timestamp >= start_date
        /\ (end_date = NoneVal \/ item.timestamp < end_date))

\* sum(item.get("time_spent", 0) for item in items if "time_spent" in item)
RECURSIVE TimeSpentSum(_)
TimeSpentSum(items) ==
    IF items = <<>> THEN 0
    ELSE (IF Head(items).time_spent # NoneVal THEN Head(items).time_spent ELSE 0)
           + TimeSpentSum(Tail(items))

LessonsCompletedAll(items) == Len(items)

\* len([item for item in items if item.get("type") == "lesson_completion"])
LessonsCompleted(items) ==
    Len(SelectSeq(items, LAMBDA item : item.type = "lesson_completion"))

\* the scores of the items that hold one, and their mean (0 without scores)
ScoresOf(items) == SelectSeq(items, LAMBDA item : item.score # NoneVal)

RECURSIVE ScoreSum(_)
ScoreSum(items) ==
    IF items = <<>> THEN 0 ELSE Head(items).score + ScoreSum(Tail(items))

AvgScore(items) ==
    IF ScoresOf(items) # <<>>
    THEN Frac(ScoreSum(ScoresOf(items)), Len(ScoresOf(items)))
    ELSE Frac(0, 1)

\* len(set(item.get("timestamp").date() for item in items))
ActiveDays(items) == Cardinality({Date(items[i].timestamp) : i \in DOMAIN items})

ChangeNaive(current, previous) ==
    IF previous.num > 0
    THEN Frac((current.num * previous.den - previous.num * current.den) * 100,
              previous.num * current.den)
    ELSE Frac(IF current.num > 0 THEN 100 ELSE 0, 1)

\* ((current - previous) / previous * 100) if previous > 0 else 0
Change(current, previous) ==
    IF previous.num > 0
    THEN Frac((current.num * previous.den - previous.num * current.den) * 100,
              previous.num * current.den)
    ELSE Frac(0, 1)

\* "up" if change > 0 else "down" if change < 0 else "flat"
Direction(change) ==
    IF change.num > 0 THEN "up" ELSE IF change.num < 0 THEN "down" ELSE "flat"

\* math.ceil(seconds / 60)
CeilMinutes(seconds) == (seconds + 59) \div 60

\* round(x, 1) of x = num / den >= 0, in tenths (ties to the even tenth)
RoundTenths(x) ==
    LET q == (x.num * 10) \div x.den
        r == (x.num * 10) % x.den
    IN IF 2 * r > x.den \/ (2 * r = x.den /\ q % 2 = 1) THEN q + 1 ELSE q

Metric(label, value, current, previous) ==
    [label |-> label, value |-> value,
     change |-> Change(current, previous),
     change_direction |-> Direction(Change(current, previous))]

Metrics(current_activity, prev_activity) ==
    << Metric("Time Spent", Frac(CeilMinutes(TimeSpentSum(current_activity)), 1),
              Frac(TimeSpentSum(current_activity), 1),
              Frac(TimeSpentSum(prev_activity), 1)),
       Metric("Lessons Completed", Frac(LessonsCompleted(current_activity), 1),
              Frac(LessonsCompleted(current_activity), 1),
              Frac(LessonsCompleted(prev_activity), 1)),
       Metric("Average Score", Frac(RoundTenths(AvgScore(current_activity)), 10),
              AvgScore(current_activity), AvgScore(prev_activity)),
       Metric("Active Days", Frac(ActiveDays(current_activity), 1),
              Frac(ActiveDays(current_activity), 1),
              Frac(ActiveDays(prev_activity), 1)) >>

\* month_days.day: the day before the first day of the next month
MonthDays(now) ==
    Day(PlusDays(IF Month(now) < 12
                 THEN DateTime(Year(now), (Month(now) % 12) + 1, 1, 0)
                 ELSE DateTime(Year(now) + 1, 1, 1, 0),
                 0 - 1))

DatePointsWeekly(now, time_range) ==
    [day \in 1..7 |-> PlusDays(StartDate(now, "week"), day - 1)]

\* date_points: no branch appends a point for a time_range outside the four
DatePoints(now, time_range) ==
    CASE time_range = "day" ->
            [hour \in 1..24 |-> DateTime(Year(now), Month(now), Day(now), hour - 1)]
      [] time_range = "week" ->
            [day \in 1..7 |-> PlusDays(StartDate(now, time_range), day - 1)]
      [] time_range = "month" ->
            [day \in 1..MonthDays(now) |-> DateTime(Year(now), Month(now), day, 0)]
      [] time_range = "year" ->
            [month \in 1..12 |-> DateTime(Year(now), month, 1, 0)]
      [] OTHER -> <<>>

NextPointHourly(point, time_range) == PlusHours(point, 1)

\* next_point of a point of the series
NextPoint(point, time_range) ==
    CASE time_range = "day" -> PlusHours(point, 1)
      [] time_range \in {"week", "month"} -> PlusDays(StartOfDay(point), 1)
      [] OTHER ->
            LET next_month == (Month(point) % 12) + 1
                next_year == IF next_month = 1 THEN Year(point) + 1 ELSE Year(point)
            IN DateTime(next_year, next_month, 1, 0)

\* one entry of time_spent_data: the seconds of the point's items, over 60
TimeSpentPoint(current_activity, point, time_range) ==
    [date |-> Date(point),
     value |-> Frac(TimeSpentSum(SelectSeq(current_activity, LAMBDA item :
                        /\ item.time_spent # NoneVal
                        /\ point <= item.timestamp
                        /\ item.timestamp < NextPoint(point, time_range))), 60)]

TimeSeries(current_activity, now, time_range) ==
    LET date_points == DatePoints(now, time_range)
    IN << [label |-> "Time Spent (minutes)",
           data |-> [i \in DOMAIN date_points |->
                       TimeSpentPoint(current_activity, date_points[i], time_range)]] >>

\* models.lesson.get_lesson_by_id: the lesson data with its id, None when the
\* document does not exist
NoLesson == [id |-> NoneVal]

GetLessonByIdAny(catalog, lesson_id) == [id |-> lesson_id, data |-> LessonData(lesson_id)]

GetLessonById(catalog, lesson_id) ==
    IF lesson_id \in catalog THEN [id |-> lesson_id, data |-> LessonData(lesson_id)]
    ELSE NoLesson

Subjects == {LessonData(id).subject : id \in CatalogIds}

\* the items of the subject-breakdown loop that reach the accumulation under
\* `subject`: a truthy lesson_id, a lesson found, and that subject
SubjectItems(current_activity, catalog, subject) ==
    SelectSeq(current_activity, LAMBDA item :
        /\ item.lesson_id # ""
        /\ GetLessonById(catalog, item.lesson_id) # NoLesson
        /\ GetLessonById(catalog, item.lesson_id).data.subject = subject)

\* subject_breakdown: item.get("time_spent", 0) / 60 added per subject; a
\* subject without such an item has no key (NoSubject)
NoSubject == [num |-> Missing, den |-> Missing]

SubjectBreakdown(current_activity, catalog) ==
    [subject \in Subjects |->
        LET items == SubjectItems(current_activity, catalog, subject)
        IN IF items = <<>> THEN NoSubject ELSE Frac(TimeSpentSum(items), 60)]

\* recommendations = await get_recommended_lessons(user_id, limit=3)
DashboardLimit == 3

DashboardRecommendations(failing) ==
    IF failing \in {"catalog", "progress"} THEN OnFailure
    ELSE ReturnedList(RecommendedLessons(AvailableLessons(lessons, DashboardLimit),
                                         CompletedLessonIds(learningProgress),
                                         DashboardLimit, <<>>))

\* formatted_recommendations, of a list
FormattedRecommendations(recommendations) ==
    [i \in DOMAIN recommendations |->
        [lesson_id |-> recommendations[i].id,
         subject |-> recommendations[i].data.subject,
         difficulty |-> recommendations[i].data.difficulty]]

\* the dict returned (without recent_achievements).  failing: "none", or the
\* read that raises: "activity" in get_dashboard_metrics itself, "catalog" or
\* "progress" inside get_recommended_lessons.  Iterating the None that
\* get_recommended_lessons returns after a failure raises TypeError, which the
\* except clause logs and re-raises.
GetDashboardMetrics(events, now, time_range, failing) ==
    LET current_activity == PeriodActivity(events, StartDate(now, time_range), NoneVal)
        prev_activity == PeriodActivity(events, PrevStartDate(now, time_range),
                                        PrevEndDate(now, time_range))
        recommendations == DashboardRecommendations(failing)
    IN IF failing = "activity" \/ recommendations = ReturnedNone THEN RaisedResponse
       ELSE [kind |-> "dashboard",
             time_range |-> time_range,
             metrics |-> Metrics(current_activity, prev_activity),
             time_series |-> TimeSeries(current_activity, now, time_range),
             subject_breakdown |-> SubjectBreakdown(current_activity, lessons),
             recommendations |-> FormattedRecommendations(recommendations.lessons)]

\* -------------------------------- routes.analytics.get_analytics_dashboard
ValidRangeIdentity(time_range) == time_range

\* if time_range not in valid_ranges: time_range = "week"
ValidRange(time_range) ==
    IF time_range \notin {"day", "week", "month", "year"} THEN "week" ELSE time_range

\* the route at the instant `now`; an exception raised by
\* get_dashboard_metrics is answered with status 500
GetAnalyticsDashboard(time_range, now, failing) ==
    /\ response' = GetDashboardMetrics(userActivity, now, ValidRange(time_range), failing)
    /\ UNCHANGED <<qa, learningProgress, lessonProgress, lessons, userActivity, last,
                   threads>>

\* ---------------------------------- update_lesson_progress in worker threads
\* _update_lesson_progress runs in a ThreadPoolExecutor thread: nothing orders
\* the doc_ref.get() of one call against the write of another.
NoCall == [pd |-> ProgressData("", FALSE, 0, NoneVal), read |-> NoDoc, ok |-> TRUE]

\* doc = doc_ref.get()
ReadDocument(p, lesson_id, completed, time_spent, score) ==
    /\ pc[p] = "idle"
    /\ pc' = [pc EXCEPT ![p] = "read"]
    /\ call' = [call EXCEPT ![p] =
                  [pd |-> ProgressData(lesson_id, completed, time_spent, score),
                   read |-> learningProgress, ok |-> TRUE]]
    /\ UNCHANGED <<qa, response, learningProgress, lessonProgress, lessons, userActivity, last,
                   base, writer>>

DocumentReadAtWrite(p) == learningProgress

\* the document the update is computed from: the one read at doc_ref.get()
DocumentRead(p) == call[p].read

\* the rest of _update_lesson_progress, to the write or to the raise
WriteDocument(p) ==
    LET r == ApplyUpdate(DocumentRead(p), call[p].pd)
        doc == IF r.ok THEN StoreWrite(learningProgress, DocumentRead(p), r.data)
               ELSE learningProgress
    IN /\ pc[p] = "read"
       /\ doc.total_time_spent \in TotalRange
       /\ pc' = [pc EXCEPT ![p] = "done"]
       /\ call' = [call EXCEPT ![p].ok = r.ok]
       /\ learningProgress' = doc
       /\ writer' = IF r.ok THEN p ELSE writer
       /\ UNCHANGED <<qa, response, lessonProgress, lessons, userActivity, last, base>>

\* ---------------------------------------- update_lesson_progress, store errors
ReturnsAlways(applied, written) == TRUE

\* except Exception as e: logger.error(...); raise -- the call returns
\* progress_data only when neither the body nor the write raised
Returns(applied, written) == applied /\ written

\* update_lesson_progress against a store whose write (doc_ref.update or
\* doc_ref.set) raises when `written` is FALSE; a write that raises stores
\* nothing
UpdateLessonProgressStore(lesson_id, completed, time_spent, score, written) ==
    LET pd == ProgressData(lesson_id, completed, time_spent, score)
        r == ApplyUpdate(learningProgress, pd)
        doc == IF r.ok /\ written
               THEN StoreWrite(learningProgress, learningProgress, r.data)
               ELSE learningProgress
    IN /\ doc.total_time_spent \in TotalRange
       /\ learningProgress' = doc
       /\ last' = Request(pd, Returns(r.ok, written))
       /\ UNCHANGED <<qa, response, lessonProgress, lessons, userActivity, threads>>

\* ------------------------------------------- models.lesson.get_user_lessons
\* an entry of user_lessons: the lesson with its progress["completed"]
UserLesson(id, completed) == [id |-> id, completed |-> completed]

\* the completed lessons that are found in all_lessons, in the order of their
\* records
CompletedEntries(all_lessons, completed_lessons) ==
    LET found == SelectSeq(completed_lessons, LAMBDA completed :
                     \E k \in DOMAIN all_lessons : all_lessons[k] = completed.lesson_id)
    IN [i \in DOMAIN found |-> UserLesson(found[i].lesson_id, TRUE)]

\* the loop over all_lessons that adds the lessons without a record, with its
\* break once user_lessons holds `limit` entries
RECURSIVE AddNewLessons(_, _, _, _)
AddNewLessons(all_lessons, completed_lesson_ids, limit, user_lessons) ==
    IF all_lessons = <<>> THEN user_lessons
    ELSE IF Head(all_lessons) \in completed_lesson_ids
    THEN AddNewLessons(Tail(all_lessons), completed_lesson_ids, limit, user_lessons)
    ELSE LET added == Append(user_lessons, UserLesson(Head(all_lessons), FALSE))
         IN IF Len(added) >= limit THEN added
            ELSE AddNewLessons(Tail(all_lessons), completed_lesson_ids, limit, added)

\* seq[start : stop] of Python, start and stop counted from 0
Slice(seq, start, stop) ==
    SubSeq(seq, start + 1, IF stop < Len(seq) THEN stop ELSE Len(seq))

\* the list returned; without a progress document the first `limit` lessons
\* are returned whatever `skip` is
UserLessons(catalog, doc, limit, skip, include_completed) ==
    LET all_lessons == AvailableLessons(catalog, limit)
        completed_part ==
            IF include_completed
            THEN CompletedEntries(all_lessons, doc.completed_lessons)
            ELSE <<>>
        user_lessons ==
            IF limit - Len(completed_part) > 0
            THEN AddNewLessons(all_lessons, CompletedLessonIds(doc), limit, completed_part)
            ELSE completed_part
    IN IF ~doc.exists
       THEN [i \in DOMAIN Slice(all_lessons, 0, limit) |-> UserLesson(all_lessons[i], FALSE)]
       ELSE Slice(user_lessons, skip, skip + limit)

\* failing: "none", or the read that raises; the except clause returns []
GetUserLessons(limit, skip, include_completed, failing) ==
    /\ response' =
         [kind |-> "user_lessons",
          lessons |-> IF failing # "none" THEN <<>>
                      ELSE UserLessons(lessons, learningProgress, limit, skip,
                                       include_completed)]
    /\ UNCHANGED <<qa, learningProgress, lessonProgress, lessons, userActivity, last,
                   threads>>

\* ------------------------------- models.analytics.get_user_completion_stats
\* _get_recent_activity: the documents with timestamp >= now - 30 days
RecentActivity(events, now) ==
    SelectSeq(events, LAMBDA item : item.timestamp >= PlusDays(now, 0 - 30))

ActivityDaysAllTime(events, now) == {Date(events[i].timestamp) : i \in DOMAIN events}

\* activity_days: the dates of the recent documents
ActivityDays(events, now) ==
    LET activity_docs == RecentActivity(events, now)
    IN {Date(activity_docs[i].timestamp) : i \in DOMAIN activity_docs}

\* while current_date in activity_days: streak_days += 1; current_date -= 1 day
RECURSIVE CurrentStreak(_, _)
CurrentStreak(current_date, activity_days) ==
    IF current_date \in activity_days
    THEN 1 + CurrentStreak(current_date - 1, activity_days)
    ELSE 0

\* streak_days; last_active is progress.get("last_active"): NoneVal when the
\* document has no such key, Missing when there is no document (the empty
\* statistics are returned)
StreakDays(events, now, last_active) ==
    IF last_active \in {Missing, NoneVal} THEN 0
    ELSE CurrentStreak(Date(now), ActivityDays(events, now))

\* the keys of the statistics that depend on the activity log
GetUserCompletionStats(now, last_active) ==
    /\ response' = [kind |-> "stats",
                    last_active |-> IF last_active = Missing THEN NoneVal ELSE last_active,
                    streak_days |-> StreakDays(userActivity, now, last_active)]
    /\ UNCHANGED <<qa, learningProgress, lessonProgress, lessons, userActivity, last,
                   threads>>

\* ------------------------------------------- models.qa, routes.qa.ask_question
\* question ids (uuid4: every ask draws an id that no document has), and what
\* generate_answer gives: a dict with this answer, or an exception
QuestionIds == 1..MaxQuestions
Answers == {"answer", "other answer"}
GeneratorOutcomes == Answers \cup {"raise"}

\* a qa document; answer "" stands for None, error "" for no error key
NoQuestion == [exists |-> FALSE, lesson_id |-> "", status |-> "", answer |-> "", error |-> ""]

\* question_data of submit_question
QuestionData(lesson_id) ==
    [exists |-> TRUE, lesson_id |-> lesson_id, status |-> "pending", answer |-> "",
     error |-> ""]

\* per question: the calls of generate_answer made for it, and how get_answer
\* ended for the route ("" while it has not ended)
NoQuestions ==
    [docs |-> [q \in QuestionIds |-> NoQuestion],
     pc |-> "idle", id |-> 0, answer_data |-> "",
     calls |-> [q \in QuestionIds |-> 0],
     result |-> [q \in QuestionIds |-> ""]]

\* ask_question up to the return of submit_question: the document is set
SubmitQuestion(question_id, lesson_id) ==
    /\ qa.pc = "idle"
    /\ ~qa.docs[question_id].exists
    /\ qa' = [qa EXCEPT !.docs[question_id] = QuestionData(lesson_id),
                        !.pc = "submitted", !.id = question_id]
    /\ UNCHANGED <<learningProgress, lessonProgress, lessons, userActivity, last,
                   threads, response>>

\* get_answer up to the return of generate_answer: the early return is not
\* taken on a pending question, the lesson (if any) is read, and the generator
\* is awaited once
GenerateAnswer(outcome) ==
    /\ qa.pc = "submitted"
    /\ ~(qa.docs[qa.id].status = "completed" /\ qa.docs[qa.id].answer # "")
    /\ qa' = [qa EXCEPT !.calls[qa.id] = @ + 1,
                        !.pc = IF outcome = "raise" THEN "raised" ELSE "generated",
                        !.answer_data = IF outcome = "raise" THEN "" ELSE outcome]
    /\ UNCHANGED <<learningProgress, lessonProgress, lessons, userActivity, last,
                   threads, response>>

UpdateDataPending(answer) == [status |-> "pending", answer |-> answer]

\* update_data (without answer_created_at and references)
UpdateData(answer) == [status |-> "completed", answer |-> answer]

\* _update_answer: the document is updated and the merged dict is returned
UpdateAnswer ==
    /\ qa.pc = "generated"
    /\ LET update_data == UpdateData(qa.answer_data)
       IN qa' = [qa EXCEPT !.docs[qa.id].status = update_data.status,
                           !.docs[qa.id].answer = update_data.answer,
                           !.pc = "idle", !.answer_data = "",
                           !.result[qa.id] = "returned"]
    /\ UNCHANGED <<learningProgress, lessonProgress, lessons, userActivity, last,
                   threads, response>>

\* the except clause: _mark_failed, then raise
MarkFailed ==
    /\ qa.pc = "raised"
    /\ qa' = [qa EXCEPT !.docs[qa.id].status = "failed",
                        !.docs[qa.id].error = "str(e)",
                        !.pc = "idle",
                        !.result[qa.id] = "raised"]
    /\ UNCHANGED <<learningProgress, lessonProgress, lessons, userActivity, last,
                   threads, response>>

\* ------------------------------------------------------------ specifications
Init ==
    /\ learningProgress = NoDoc
    /\ lessonProgress = [l \in LessonIds |-> NoLessonProgress]
    /\ lessons = SeededLessons
    /\ userActivity = <<>>
    /\ last = NoRequest
    /\ pc = [p \in Procs |-> "idle"]
    /\ call = [p \in Procs |-> NoCall]
    /\ base = NoDoc
    /\ writer = ""
    /\ response = NoReply
    /\ qa = NoQuestions

\* requests handled one after the other
ProgressRequest(T, S) ==
    \/ \E l \in LessonIds, c \in BOOLEAN, t \in T, s \in S :
         UpdateLessonProgress(l, c, t, s)
    \/ \E l \in LessonIds, c \in BOOLEAN, t \in T, s \in S, d \in Times :
         TrackProgress(l, c, t, s, d)

Next ==
    \/ ProgressRequest(TimeSpent, Scores)
    \/ \E l \in LessonIds : GenerateLesson(l)

Spec == Init /\ [][Next]_vars

\* the same requests beside the activity log
NextActivity ==
    \/ ProgressRequest({1}, {NoneVal})
    \/ \E ty \in ActivityTypes, l \in LessonIds \cup {""},
          t \in TimeSpent \cup {NoneVal}, s \in Scores, d \in Times :
         LogUserActivity(ty, l, t, s, d)

SpecActivity == Init /\ [][NextActivity]_vars

\* two update_lesson_progress calls in two worker threads, on a document that
\* is absent or was left by one earlier call
BaseDocs ==
    {NoDoc} \cup
    {AfterUpdate(NoDoc, ProgressData(l, c, t, s)) :
        l \in LessonIds, c \in BOOLEAN, t \in TimeSpent, s \in Scores}

InitConc ==
    /\ learningProgress \in BaseDocs
    /\ base = learningProgress
    /\ lessonProgress = [l \in LessonIds |-> NoLessonProgress]
    /\ lessons = SeededLessons
    /\ userActivity = <<>>
    /\ last = NoRequest
    /\ pc = [p \in Procs |-> "idle"]
    /\ call = [p \in Procs |-> NoCall]
    /\ writer = ""
    /\ response = NoReply
    /\ qa = NoQuestions

NextConc ==
    \/ \E p \in Procs, l \in LessonIds, c \in BOOLEAN, t \in TimeSpent, s \in Scores :
         ReadDocument(p, l, c, t, s)
    \/ \E p \in Procs : WriteDocument(p)

SpecConc == InitConc /\ [][NextConc]_vars

\* update_lesson_progress calls against a store whose writes may fail
NextStore ==
    \E l \in LessonIds, c \in BOOLEAN, t \in TimeSpent, s \in Scores, w \in BOOLEAN :
        UpdateLessonProgressStore(l, c, t, s, w)

SpecStore == Init /\ [][NextStore]_vars

\* recommendation requests, between completions and new lessons of the catalog
NextRecommend ==
    \/ \E l \in CatalogIds, c \in BOOLEAN : UpdateLessonProgress(l, c, 0, NoneVal)
    \/ \E l \in CatalogIds : GenerateLesson(l)
    \/ \E limit \in Limits, failing \in Failures : GetRecommendedLessons(limit, failing)

SpecRecommend == Init /\ [][NextRecommend]_vars

\* dashboard requests over a stored activity log: instants in January, in a
\* February of 28 and of 29 days, on the last day of December and on a Monday
\* at 00:00; events on the hour around the first of those instants
Nows ==
    {DateTime(2024, 1, 10, 15), DateTime(2025, 2, 14, 12), DateTime(2024, 2, 29, 8),
     DateTime(2024, 12, 31, 23), DateTime(2024, 4, 1, 0)}

EventTimes ==
    {DateTime(2024, 1, 10, 9), DateTime(2024, 1, 1, 0), DateTime(2023, 12, 1, 0),
     DateTime(2023, 11, 30, 23)}

Completions == {ActivityData("lesson_completion", "", 60, 100, at) : at \in EventTimes}
Questions == {ActivityData("question_asked", "", NoneVal, NoneVal, at) : at \in EventTimes}
Updates == {ActivityData("progress_update", "", 120, 50, at) : at \in EventTimes}

Repeat(event, n) == [i \in 1..n |-> event]

\* the logs: some completions at one instant, then some questions at one
\* instant, then further events of any kind at one instant
ActivityLogs ==
    {Repeat(e1, n1) \o Repeat(e2, n2) \o Repeat(e3, n3) :
        e1 \in Completions, e2 \in Questions,
        e3 \in Completions \cup Questions \cup Updates,
        n1 \in 0..MaxRepeat, n2 \in 0..(MaxRepeat - 1), n3 \in 0..(MaxRepeat - 2)}

InitDashboard ==
    /\ userActivity \in ActivityLogs
    /\ learningProgress = NoDoc
    /\ lessonProgress = [l \in LessonIds |-> NoLessonProgress]
    /\ lessons = SeededLessons
    /\ last = NoRequest
    /\ pc = [p \in Procs |-> "idle"]
    /\ call = [p \in Procs |-> NoCall]
    /\ base = NoDoc
    /\ writer = ""
    /\ response = NoReply
    /\ qa = NoQuestions

\* one request on each log: the dashboard of a log does not depend on earlier
\* requests
NextDashboard ==
    /\ response = NoReply
    /\ \E time_range \in TimeRanges, now \in Nows, failing \in {"none", "activity"} :
          GetAnalyticsDashboard(time_range, now, failing)

SpecDashboard == InitDashboard /\ [][NextDashboard]_vars

\* dashboard requests over a log whose events reference lessons, while the
\* catalog grows: an event may reference a lesson that has no document
SubjectNow == DateTime(2024, 1, 10, 15)

SubjectEventTimes == {DateTime(2024, 1, 10, 9), DateTime(2023, 11, 30, 23)}

SubjectEvents ==
    {ActivityData("progress_update", lesson_id, time_spent, NoneVal, at) :
        lesson_id \in CatalogIds \cup {""}, time_spent \in {NoneVal, 60, 90},
        at \in SubjectEventTimes}

SubjectLogs == UNION {[1..n -> SubjectEvents] : n \in 0..MaxSubjectEvents}

InitSubjects ==
    /\ userActivity \in SubjectLogs
    /\ learningProgress \in
         {NoDoc, AfterUpdate(NoDoc, ProgressData("a", TRUE, 0, NoneVal))}
    /\ lessonProgress = [l \in LessonIds |-> NoLessonProgress]
    /\ lessons = SeededLessons
    /\ last = NoRequest
    /\ pc = [p \in Procs |-> "idle"]
    /\ call = [p \in Procs |-> NoCall]
    /\ base = NoDoc
    /\ writer = ""
    /\ response = NoReply
    /\ qa = NoQuestions

NextSubjects ==
    /\ response = NoReply
    /\ \/ \E l \in CatalogIds : GenerateLesson(l)
       \/ \E time_range \in TimeRanges, failing \in Failures \cup {"activity"} :
             GetAnalyticsDashboard(time_range, SubjectNow, failing)

SpecSubjects == InitSubjects /\ [][NextSubjects]_vars

\* track_progress requests only, handled one after the other, while lessons are
\* generated
NextTrack ==
    \/ \E l \in LessonIds, c \in BOOLEAN, t \in TimeSpent, s \in Scores, d \in Times :
         TrackProgress(l, c, t, s, d)
    \/ \E l \in LessonIds : GenerateLesson(l)

SpecTrack == Init /\ [][NextTrack]_vars

\* statistics requests over a stored activity log, at 10:00 on March 1st of a
\* leap year and on January 2nd: events on the days before, at 9:00 and at
\* 11:00 of the day 30 days back, later today, or every day of the last
\* StreakSpan days at one hour
StreakNows == {DateTime(2024, 3, 1, 10), DateTime(2025, 1, 2, 10)}

StreakEventTimes ==
    {PlusDays(DateTime(2024, 3, 1, 10), 0 - back) + hour :
        back \in {0, 1, 2, 3, 30}, hour \in {-1, 1}}

StreakEvent(at) == ActivityData("question_asked", "", NoneVal, NoneVal, at)

\* the documents of the instants, latest first
RECURSIVE SetToLog(_)
SetToLog(times) ==
    IF times = {} THEN <<>>
    ELSE LET at == CHOOSE t \in times : \A u \in times : t >= u
         IN <<StreakEvent(at)>> \o SetToLog(times \ {at})

DailyLog(now, hour) ==
    [i \in 1..StreakSpan |-> StreakEvent(PlusDays(now, 1 - i) + hour)]

StreakLogs ==
    {SetToLog(times) : times \in {t \in SUBSET StreakEventTimes : Cardinality(t) <= MaxStreakEvents}}
      \cup {DailyLog(now, hour) : now \in StreakNows, hour \in {-1, 1}}

InitStreak ==
    /\ userActivity \in StreakLogs
    /\ learningProgress = NoDoc
    /\ lessonProgress = [l \in LessonIds |-> NoLessonProgress]
    /\ lessons = SeededLessons
    /\ last = NoRequest
    /\ pc = [p \in Procs |-> "idle"]
    /\ call = [p \in Procs |-> NoCall]
    /\ base = NoDoc
    /\ writer = ""
    /\ response = NoReply
    /\ qa = NoQuestions

NextStreak ==
    /\ response = NoReply
    /\ \E now \in StreakNows :
          \E last_active \in {Missing, NoneVal, now} :
             GetUserCompletionStats(now, last_active)

SpecStreak == InitStreak /\ [][NextStreak]_vars

\* /my-lessons requests, between completions and new lessons of the catalog
Skips == 0..MaxSkip

NextLessons ==
    \/ \E l \in CatalogIds, c \in BOOLEAN : UpdateLessonProgress(l, c, 0, NoneVal)
    \/ \E l \in CatalogIds : GenerateLesson(l)
    \/ \E limit \in Limits, skip \in Skips, include_completed \in BOOLEAN,
          failing \in Failures :
         GetUserLessons(limit, skip, include_completed, failing)

SpecLessons == Init /\ [][NextLessons]_vars

\* /ask requests, one at a time
NextAsk ==
    \/ \E question_id \in QuestionIds, lesson_id \in LessonIds \cup {""} :
         SubmitQuestion(question_id, lesson_id)
    \/ \E outcome \in GeneratorOutcomes : GenerateAnswer(outcome)
    \/ UpdateAnswer
    \/ MarkFailed

SpecAsk == Init /\ [][NextAsk]_vars

\* ------------------------------------------------------------------ claims
completed_lessons == learningProgress.completed_lessons
current_lesson == learningProgress.current_lesson
total_time_spent == learningProgress.total_time_spent

References(current, lesson_id) ==
    current.kind = "dict" /\ current.val.lesson_id = lesson_id

\* the sum of time_spent over a list of records
RECURSIVE SumTimeSpent(_)
SumTimeSpent(records) ==
    IF records = <<>> THEN 0
    ELSE DictGet(Head(records).time_spent, 0) + SumTimeSpent(Tail(records))

\* the last update_lesson_progress call was a completed=true call that reached its write
LastCompletionSucceeded == last.called /\ last.completed /\ last.ok

LastRecord == completed_lessons[ExistingIndex(completed_lessons, last.lesson_id)]

\* an update_lesson_progress step with these arguments; the step records its
\* call in last, so the three conjuncts in front follow from the action
UpdateStep(l, c, t, s) ==
    /\ last'.called
    /\ last'.lesson_id = l
    /\ last'.completed = c
    /\ UpdateLessonProgress(l, c, t, s)

\* C1: completed_lessons holds at most one record per lesson_id, whatever
\* sequence of update_lesson_progress and track_progress requests ran.
UniqueCompletedLessons ==
    \A i, j \in DOMAIN completed_lessons :
        completed_lessons[i].lesson_id = completed_lessons[j].lesson_id => i = j

\* a repeat completion: the record the route created (it has a completion_date)
\* was merged in place by a later update_lesson_progress, beside another record
RepeatCompletionMergedInPlace ==
    /\ LastCompletionSucceeded
    /\ Len(completed_lessons) = 2
    /\ LastRecord.completion_date # Missing

\* C2: from every reachable document, a completed=true update applied twice in
\* a row leaves the total_time_spent that applying it once leaves, through
\* update_lesson_progress and through the route.
CompletionIdempotent ==
    \A l \in LessonIds, t \in TimeSpent, s \in Scores :
        LET pd == ProgressData(l, TRUE, t, s)
            once == AfterUpdate(learningProgress, pd)
        IN /\ AfterUpdate(once, pd).total_time_spent = once.total_time_spent
           /\ \A d1, d2 \in Times :
                LET tracked == TrackLearningProgress(learningProgress, pd, d1)
                IN TrackLearningProgress(tracked, pd, d2).total_time_spent
                     = tracked.total_time_spent

\* a completion has just been applied with success, it counted its time, and
\* the identical request applied again succeeds and changes nothing
CompletionAppliedAgain ==
    /\ LastCompletionSucceeded
    /\ total_time_spent = SumTimeSpent(completed_lessons)
    /\ total_time_spent > 0
    /\ LET pd == ProgressData(last.lesson_id, TRUE, LastRecord.time_spent, LastRecord.score)
       IN /\ ApplyUpdate(learningProgress, pd).ok
          /\ AfterUpdate(learningProgress, pd) = learningProgress

\* C3: a successful update_lesson_progress takes total_time_spent to
\* previous_total + new - old, old being the time_spent of the lesson's record
\* before the call (0 without a record).
TotalReplacesRecordedTime ==
    [][\A l \in LessonIds, c \in BOOLEAN, t \in TimeSpent, s \in Scores :
         (UpdateStep(l, c, t, s) /\ last'.ok)
           => LET i == ExistingIndex(completed_lessons, l)
                  old == IF i # 0 THEN DictGet(completed_lessons[i].time_spent, 0) ELSE 0
              IN total_time_spent' = total_time_spent + t - old]_vars

\* C4: after completed=true calls of update_lesson_progress alone (no in-progress
\* call has set current_lesson, the route has created no lessonProgress
\* document), total_time_spent is the sum of time_spent over completed_lessons.
TotalIsSumOfCompleted ==
    (/\ current_lesson.kind = "missing"
     /\ \A l \in LessonIds : ~lessonProgress[l].exists)
       => total_time_spent = SumTimeSpent(completed_lessons)

\* C5: when two concurrent calls both read the document before either wrote and
\* both reach their write, the stored total_time_spent is the one the last
\* writer computed from what it read: the other call's adjustment is lost.
BothWrote == \A p \in Procs : pc[p] = "done" /\ call[p].ok
BothReadBase == \A p \in Procs : call[p].read = base

LastWriterWins ==
    (BothWrote /\ BothReadBase)
       => total_time_spent = AfterUpdate(base, call[writer].pd).total_time_spent

SerialTotal(p, q) ==
    AfterUpdate(AfterUpdate(base, call[p].pd), call[q].pd).total_time_spent

\* both calls report success and the total is one no serial order produces
LostUpdate ==
    /\ BothWrote
    /\ BothReadBase
    /\ total_time_spent # SerialTotal("p", "q")
    /\ total_time_spent # SerialTotal("q", "p")

\* C6: a completed=true request for a lesson with a record leaves that record
\* completed, with the score and time_spent of the request and the
\* completion_date it had; without a record, it appends one.  (The route is
\* taken for lessons of the catalog.)
CompletionMergesOrAppends ==
    [][\A l \in LessonIds, t \in TimeSpent, s \in Scores :
         (\/ UpdateStep(l, TRUE, t, s)
          \/ (l \in lessons /\ \E d \in Times : TrackProgress(l, TRUE, t, s, d)))
           => LET i == ExistingIndex(completed_lessons, l)
                  after == learningProgress'.completed_lessons
              IN IF i # 0
                 THEN /\ Len(after) = Len(completed_lessons)
                      /\ after[i].lesson_id = l
                      /\ after[i].completed
                      /\ after[i].score = s
                      /\ after[i].time_spent = t
                      /\ completed_lessons[i].completion_date # Missing
                           => after[i].completion_date = completed_lessons[i].completion_date
                 ELSE /\ Len(after) = Len(completed_lessons) + 1
                      /\ after[Len(after)].lesson_id = l]_vars

\* C7: a successful completed=true update_lesson_progress for lesson l leaves a
\* current_lesson that does not reference l, and leaves alone a current_lesson
\* that referenced another lesson.
CompletionClearsCurrent ==
    [][\A l \in LessonIds, t \in TimeSpent, s \in Scores :
         (UpdateStep(l, TRUE, t, s) /\ last'.ok)
           => /\ ~References(learningProgress'.current_lesson, l)
              /\ (\E o \in LessonIds \ {l} : References(current_lesson, o))
                   => learningProgress'.current_lesson = current_lesson]_vars

\* the completion found current_lesson on its lesson and cleared it
CurrentCleared ==
    /\ LastCompletionSucceeded
    /\ current_lesson.kind = "null"
    /\ ExistingIndex(completed_lessons, last.lesson_id) # 0

\* C8: a completed=false update_lesson_progress always succeeds, makes
\* current_lesson the snapshot of the request whatever it held, and leaves
\* completed_lessons as it was.
InProgressReplacesCurrent ==
    [][\A l \in LessonIds, t \in TimeSpent, s \in Scores :
         UpdateStep(l, FALSE, t, s)
           => /\ last'.ok
              /\ learningProgress'.current_lesson = Dict(ProgressData(l, FALSE, t, s))
              /\ learningProgress'.completed_lessons = completed_lessons]_vars

\* an in-progress snapshot is tracked beside two completed lessons, one of them
\* the lesson of the snapshot itself
InProgressTracked ==
    /\ last.called /\ ~last.completed /\ last.ok
    /\ References(current_lesson, last.lesson_id)
    /\ Len(completed_lessons) = 2

\* C9 as stated: after a successful completion, get_lesson_progress reports the
\* score, the time_spent and the completion_date of the stored record.
ReadBackReportsCompletionDate ==
    LastCompletionSucceeded
      => LET r == GetLessonProgress(learningProgress, last.lesson_id)
         IN /\ r.kind = "found"
            /\ r.score = LastRecord.score
            /\ r.time_spent = LastRecord.time_spent
            /\ r.completion_date = LastRecord.completion_date

\* C9 as amended: after a successful completed=true update_lesson_progress, the
\* record of the LearningProgress document holds the score and time_spent of
\* the request and the completion_date it held before (none for a new record),
\* and get_lesson_progress reports that score and time_spent.
ReadBackReportsWritten ==
    [][\A l \in LessonIds, t \in TimeSpent, s \in Scores :
         (UpdateStep(l, TRUE, t, s) /\ last'.ok)
           => LET i == ExistingIndex(completed_lessons, l)
                  j == ExistingIndex(learningProgress'.completed_lessons, l)
                  r == GetLessonProgress(learningProgress', l)
              IN /\ j # 0
                 /\ learningProgress'.completed_lessons[j].score = s
                 /\ learningProgress'.completed_lessons[j].time_spent = t
                 /\ learningProgress'.completed_lessons[j].completion_date
                      = (IF i # 0 THEN completed_lessons[i].completion_date ELSE Missing)
                 /\ r.kind = "found"
                 /\ r.completed
                 /\ r.score = s
                 /\ r.time_spent = t]_vars

\* a record with a score and a completion_date is read back after its update
ScoredRecordReadBack ==
    /\ LastCompletionSucceeded
    /\ LastRecord.completion_date # Missing
    /\ LastRecord.score # NoneVal
    /\ GetLessonProgress(learningProgress, last.lesson_id).score = LastRecord.score

\* C10: every successful progress update appends an event to userActivity, of
\* type lesson_completion when completed and progress_update otherwise.
ProgressUpdateLogsActivity ==
    [][\A l \in LessonIds, c \in BOOLEAN, t \in TimeSpent, s \in Scores :
         (\/ (UpdateStep(l, c, t, s) /\ last'.ok)
          \/ \E d \in Times : TrackProgress(l, c, t, s, d))
           => /\ Len(userActivity') = Len(userActivity) + 1
              /\ userActivity'[Len(userActivity')].type
                   = (IF c THEN "lesson_completion" ELSE "progress_update")]_vars

\* C11: when the write of update_lesson_progress fails, the call raises to its
\* caller and the stored learningProgress document is left as it was.
FailedWritePropagates ==
    [][\A l \in LessonIds, c \in BOOLEAN, t \in TimeSpent, s \in Scores :
         (/\ last'.called /\ last'.lesson_id = l /\ last'.completed = c
          /\ UpdateLessonProgressStore(l, c, t, s, FALSE))
           => /\ ~last'.ok
              /\ learningProgress' = learningProgress]_vars

\* an in-progress update (its body never raises) ended in a raise on a stored
\* document that tracks no current lesson: its write failed and stored nothing
InProgressWriteFailed ==
    /\ last.called /\ ~last.completed /\ ~last.ok
    /\ learningProgress.exists
    /\ current_lesson.kind = "missing"


\* a recommendation request that returned a list
RecommendStep(limit) ==
    /\ response'.kind = "list"
    /\ GetRecommendedLessons(limit, "none")

ResponseIds == {response.lessons[i].id : i \in DOMAIN response.lessons}

\* C12: no lesson returned by get_recommended_lessons has an id that is in the
\* completed_lessons of the progress document the request read.
NeverRecommendsCompleted ==
    [][\A limit \in Limits :
         RecommendStep(limit)
           => \A i \in DOMAIN response'.lessons :
                \A j \in DOMAIN completed_lessons :
                   response'.lessons[i].id # completed_lessons[j].lesson_id]_vars

\* the first lesson of the catalog is completed and the request returned
\* lessons, passing over it
CompletedLessonSkipped ==
    /\ response.kind = "list"
    /\ response.lessons # <<>>
    /\ ExistingIndex(completed_lessons, CatalogOrder[1]) # 0
    /\ CatalogOrder[1] \in lessons
    /\ CatalogOrder[1] \notin ResponseIds


\* C13: when the catalog read or the progress read raises,
\* get_recommended_lessons returns the empty list.
FailureReturnsEmptyList ==
    [][\A limit \in Limits, failing \in Failures \ {"none"} :
         GetRecommendedLessons(limit, failing) => response' = ReturnedList(<<>>)]_vars

\* C14: the result has min(limit, number of catalog lessons the user has not
\* completed) entries.
Uncompleted == lessons \ CompletedLessonIds(learningProgress)

RecommendsEveryCandidate ==
    [][\A limit \in Limits :
         RecommendStep(limit)
           => Len(response'.lessons)
                = (IF limit < Cardinality(Uncompleted) THEN limit
                   ELSE Cardinality(Uncompleted))]_vars

\* C15: with lesson "a" (tagged algebra) completed, and candidates A
\* (Mathematics, beginner, tags algebra and equations, 2 days old) and B
\* (Physics, advanced, no tags, 100 days old) both returned, A carries the
\* relevance score 0.70, B one of at most -0.20, and A comes before B.
\* Scores are in hundredths.
IsCandidateA(lesson) ==
    /\ lesson.data.subject = "Mathematics" /\ lesson.data.difficulty = "beginner"
    /\ lesson.data.tags = {"algebra", "equations"} /\ lesson.data.age_days = 2

IsCandidateB(lesson) ==
    /\ lesson.data.subject = "Physics" /\ lesson.data.difficulty = "advanced"
    /\ lesson.data.tags = {} /\ lesson.data.age_days = 100

RanksByRelevance ==
    [][\A limit \in Limits :
         (/\ RecommendStep(limit)
          /\ CompletedLessonIds(learningProgress) = {"a"})
           => \A i, j \in DOMAIN response'.lessons :
                (IsCandidateA(response'.lessons[i]) /\ IsCandidateB(response'.lessons[j]))
                  => /\ i < j
                     /\ response'.lessons[i].relevance_score = 70
                     /\ response'.lessons[j].relevance_score # Missing
                     /\ response'.lessons[j].relevance_score <= 0 - 20]_vars

\* ------------------------------------------------------- dashboard claims
\* The dashboard of a stored log is the same before and after a request, so
\* the statements over every instant and range are made on the states in which
\* the request is still to be answered.
Unanswered == response = NoReply

\* the dashboard in the response, with its time series
Answered == response.kind = "dashboard"
SeriesData == response.time_series[1].data

\* the four quantities of a period, in the order of the metrics
Quantities(items) ==
    << Frac(TimeSpentSum(items), 1), Frac(LessonsCompleted(items), 1),
       AvgScore(items), Frac(ActiveDays(items), 1) >>

\* change = (current - previous) / previous * 100, as fractions
IsPercentChange(change, current, previous) ==
    change.num * (previous.num * current.den)
      = (current.num * previous.den - previous.num * current.den) * 100 * change.den

\* C16: for each of the four metrics, change is (current - previous) /
\* previous * 100 when previous > 0 and 0 otherwise, and change_direction is
\* "up", "down" or "flat" by the sign of change.
ChangeAndDirection ==
    Unanswered =>
      \A now \in Nows, time_range \in TimeRanges :
        LET range == ValidRange(time_range)
            current == Quantities(PeriodActivity(userActivity, StartDate(now, range),
                                                 NoneVal))
            previous == Quantities(PeriodActivity(userActivity,
                                                  PrevStartDate(now, range),
                                                  PrevEndDate(now, range)))
            metrics == GetDashboardMetrics(userActivity, now, range, "none").metrics
        IN \A i \in 1..4 :
             /\ previous[i].num > 0
                  => IsPercentChange(metrics[i].change, current[i], previous[i])
             /\ previous[i].num <= 0 => metrics[i].change.num = 0
             /\ metrics[i].change_direction
                  = (IF metrics[i].change.num > 0 THEN "up"
                     ELSE IF metrics[i].change.num < 0 THEN "down" ELSE "flat")

\* every event of the log is at one instant, inside the current period of the
\* answered request: previous is 0, current is not, change is 0 and "flat"
FlatFromZero ==
    /\ Answered
    /\ userActivity # <<>>
    /\ \A i \in DOMAIN userActivity : userActivity[i].timestamp = userActivity[1].timestamp
    /\ \A i \in 1..4 :
         /\ response.metrics[i].value.num > 0
         /\ response.metrics[i].change.num = 0
         /\ response.metrics[i].change_direction = "flat"

\* C17: the "Lessons Completed" metric counts the lesson_completion events of
\* each period and no other event: its value is the count of the current
\* period and its change comes from the two counts.
CompletionsIn(start_date, end_date) ==
    Cardinality({i \in DOMAIN userActivity :
        /\ userActivity[i].type = "lesson_completion"
        /\ userActivity[i].timestamp >= start_date
        /\ (end_date = NoneVal \/ userActivity[i].timestamp < end_date)})

CountsCompletionsOnly ==
    Unanswered =>
      \A now \in Nows, time_range \in TimeRanges :
        LET range == ValidRange(time_range)
            current == CompletionsIn(StartDate(now, range), NoneVal)
            previous == CompletionsIn(PrevStartDate(now, range), PrevEndDate(now, range))
            metric == GetDashboardMetrics(userActivity, now, range, "none").metrics[2]
        IN /\ metric.label = "Lessons Completed"
           /\ metric.value = Frac(current, 1)
           /\ previous > 0
                => metric.change.num * previous
                     = (current - previous) * 100 * metric.change.den
           /\ previous = 0 => metric.change.num = 0

\* 3 lesson_completion and 2 question_asked events in the current week, 1
\* lesson_completion event in the previous week: value 3, change 200.0, "up"
ThreeCompletionsThisWeek ==
    /\ Answered
    /\ response.time_range = "week"
    /\ userActivity =
         Repeat(ActivityData("lesson_completion", "", 60, 100, DateTime(2024, 1, 10, 9)), 3)
           \o Repeat(ActivityData("question_asked", "", NoneVal, NoneVal,
                                   DateTime(2024, 1, 10, 9)), 2)
           \o Repeat(ActivityData("lesson_completion", "", 60, 100,
                                   DateTime(2024, 1, 1, 0)), 1)
    /\ response.metrics[2].value = Frac(3, 1)
    /\ response.metrics[2].change.num = 200 * response.metrics[2].change.den
    /\ response.metrics[2].change_direction = "up"

\* C18: for time_range = "month" the previous period is the preceding
\* calendar month, from 00:00 on its first day up to, not including, 00:00 on
\* the first day of the current month; in January it is December of the year
\* before.  The events of the previous period are those of that month.
PrecedingMonth(now) ==
    IF Month(now) = 1 THEN [year |-> Year(now) - 1, month |-> 12]
    ELSE [year |-> Year(now), month |-> Month(now) - 1]

PreviousMonthIsCalendarMonth ==
    Unanswered =>
      \A now \in Nows :
        LET prev_start_date == PrevStartDate(now, "month")
            prev_end_date == PrevEndDate(now, "month")
            prev_activity == PeriodActivity(userActivity, prev_start_date, prev_end_date)
        IN /\ prev_start_date
                = DateTime(PrecedingMonth(now).year, PrecedingMonth(now).month, 1, 0)
           /\ prev_end_date
                = PlusDays(prev_start_date,
                           DaysInMonth(PrecedingMonth(now).year, PrecedingMonth(now).month))
           /\ prev_end_date = DateTime(Year(now), Month(now), 1, 0)
           /\ prev_activity
                = SelectSeq(userActivity, LAMBDA item :
                     /\ Year(item.timestamp) = PrecedingMonth(now).year
                     /\ Month(item.timestamp) = PrecedingMonth(now).month)

\* a month dashboard asked in January 2024 over one completion on 2023-12-01
\* at 00:00 and one on 2024-01-01 at 00:00: the first is of the previous
\* period, the second of the current one
DecemberBeforeJanuary ==
    /\ Answered
    /\ response.time_range = "month"
    /\ userActivity =
         << ActivityData("lesson_completion", "", 60, 100, DateTime(2023, 12, 1, 0)),
            ActivityData("lesson_completion", "", 60, 100, DateTime(2024, 1, 1, 0)) >>
    /\ response.metrics[2].value = Frac(1, 1)
    /\ response.metrics[2].change.num = 0
    /\ Len(SeriesData) = 31
    /\ SeriesData[1].value.num = 60

\* C19 as stated: for an invalid time_range, the dashboard -- that of the route
\* and that of get_dashboard_metrics -- has the period boundaries, the four
\* metrics and the time series (7 daily points) of the "week" dashboard at the
\* same instant.
InvalidRanges == TimeRanges \ {"day", "week", "month", "year"}

SameBoundaries(now, time_range, other) ==
    /\ StartDate(now, time_range) = StartDate(now, other)
    /\ PrevStartDate(now, time_range) = PrevStartDate(now, other)
    /\ PrevEndDate(now, time_range) = PrevEndDate(now, other)

SeriesMonth == Calendar[SeriesData[1].date]

OnePointPerSubPeriod ==
    Answered =>
      /\ Len(response.time_series) = 1
      /\ response.time_range = "day" => Len(SeriesData) = 24
      /\ response.time_range = "week" => Len(SeriesData) = 7
      /\ response.time_range = "month"
           => Len(SeriesData) = DaysInMonth(SeriesMonth.year, SeriesMonth.month)
      /\ response.time_range = "year" => Len(SeriesData) = 12

\* a month dashboard asked in December: 31 points, from 2024-12-01
DecemberSeries ==
    /\ Answered
    /\ response.time_range = "month"
    /\ SeriesData[1].date = DateOf(2024, 12, 1)
    /\ Len(SeriesData) = 31
    /\ SeriesData[31].date = DateOf(2024, 12, 31)

\* ------------------------------------------------ subject breakdown claims
ValidRanges == {"day", "week", "month", "year"}

\* the events of the log that are in the current period of a request, have a
\* lesson that exists, and that lesson has the subject
Resolved(now, time_range, subject) ==
    {i \in DOMAIN userActivity :
        /\ userActivity[i].timestamp >= StartDate(now, time_range)
        /\ userActivity[i].lesson_id \in lessons
        /\ LessonData(userActivity[i].lesson_id).subject = subject}

Deleted(now, time_range) ==
    {i \in DOMAIN userActivity :
        /\ userActivity[i].timestamp >= StartDate(now, time_range)
        /\ userActivity[i].lesson_id \notin lessons \cup {""}}

RECURSIVE SecondsOf(_)
SecondsOf(indices) ==
    IF indices = {} THEN 0
    ELSE LET i == CHOOSE i \in indices : TRUE
             seconds == userActivity[i].time_spent
         IN (IF seconds = NoneVal THEN 0 ELSE seconds) + SecondsOf(indices \ {i})

\* C21: when current-period events reference lessons that do not exist, the
\* dashboard request succeeds, and the breakdown of each subject is the time,
\* in minutes, of the events whose lesson exists and has that subject; the
\* events of missing lessons add nothing.
MissingLessonSkipped ==
    Unanswered =>
      \A time_range \in ValidRanges :
        LET dashboard == GetDashboardMetrics(userActivity, SubjectNow, time_range, "none")
        IN /\ dashboard.kind = "dashboard"
           /\ \A subject \in Subjects :
                LET resolved == Resolved(SubjectNow, time_range, subject)
                IN dashboard.subject_breakdown[subject] =
                     IF resolved = {} THEN NoSubject
                     ELSE Frac(SecondsOf(resolved), 60)

\* a dashboard answered over a log with an event of 60 seconds on the missing
\* lesson "b" (Physics) and one of 90 seconds on lesson "a" (Mathematics):
\* 1.5 minutes of Mathematics and no Physics
MissingLessonEventSkipped ==
    /\ Answered
    /\ response.time_range = "day"
    /\ lessons = {"a"}
    /\ Len(userActivity) = 2
    /\ userActivity[1].lesson_id = "b" /\ userActivity[1].time_spent = 60
    /\ userActivity[2].lesson_id = "a" /\ userActivity[2].time_spent = 90
    /\ Deleted(SubjectNow, "day") = {1}
    /\ response.subject_breakdown["Mathematics"] = Frac(90, 60)
    /\ response.subject_breakdown["Physics"] = NoSubject

\* --------------------------------------------------- progress claims, again
\* C22: with a store that never fails, every update_lesson_progress call of
\* every sequence of calls succeeds, a completion made after an earlier
\* completion has set current_lesson to null included.
EveryUpdateSucceeds == last.called => last.ok

\* C23: in every progress document reached by update_lesson_progress calls,
\* current_lesson does not reference a lesson that has a record in
\* completed_lessons.
NeverCompletedAndCurrent ==
    \A l \in LessonIds :
        ~(References(current_lesson, l) /\ ExistingIndex(completed_lessons, l) # 0)

\* C24: when two concurrent completed=true updates of two different lessons
\* have both reported success, both lessons have a record in completed_lessons.
BothCompletionsRecorded ==
    (/\ BothWrote
     /\ \A p \in Procs : call[p].pd.completed
     /\ call["p"].pd.lesson_id # call["q"].pd.lesson_id)
       => \A p \in Procs : ExistingIndex(completed_lessons, call[p].pd.lesson_id) # 0

\* C25: when a read inside get_recommended_lessons fails, get_dashboard_metrics
\* still returns its metrics, time series and subject breakdown, with an empty
\* recommendations list.
RecommendationFailureTolerated ==
    Unanswered =>
      \A time_range \in ValidRanges, failing \in Failures \ {"none"} :
        LET dashboard == GetDashboardMetrics(userActivity, SubjectNow, time_range, failing)
            working == GetDashboardMetrics(userActivity, SubjectNow, time_range, "none")
        IN /\ dashboard.kind = "dashboard"
           /\ dashboard.recommendations = <<>>
           /\ dashboard.metrics = working.metrics
           /\ dashboard.time_series = working.time_series
           /\ dashboard.subject_breakdown = working.subject_breakdown

\* C26: after any sequence of successful track_progress requests, the
\* lessonProgress document of a lesson has completed = true exactly when the
\* lesson has a record in learningProgress.completed_lessons.
StoresAgree ==
    \A l \in LessonIds :
        lessonProgress[l].completed <=> ExistingIndex(completed_lessons, l) # 0

\* ------------------------------------------------------ time series claims
\* the events of the log from the start of the period up to now that carry
\* time_spent
Timed(now, time_range) ==
    {i \in DOMAIN userActivity :
        /\ userActivity[i].timestamp >= StartDate(now, time_range)
        /\ userActivity[i].timestamp <= now
        /\ userActivity[i].time_spent # NoneVal}

\* the points of the series whose sub-period holds the instant
PointsOf(timestamp, now, time_range) ==
    LET date_points == DatePoints(now, time_range)
    IN {k \in DOMAIN date_points :
          /\ date_points[k] <= timestamp
          /\ timestamp < NextPoint(date_points[k], time_range)}

RECURSIVE SeriesSeconds(_)
SeriesSeconds(data) ==
    IF data = <<>> THEN 0 ELSE Head(data).value.num + SeriesSeconds(Tail(data))

\* C27: for day, week, month and year, each event from the period start up to
\* now that carries time_spent falls in exactly one point of the series, and
\* the values of the points (each in minutes) sum to the time_spent of those
\* events in minutes.
SeriesCoversPeriod ==
    Unanswered =>
      \A now \in Nows, time_range \in ValidRanges :
        LET data == GetDashboardMetrics(userActivity, now, time_range, "none").time_series[1].data
            timed == Timed(now, time_range)
        IN /\ \A i \in timed :
                Cardinality(PointsOf(userActivity[i].timestamp, now, time_range)) = 1
           /\ \A k \in DOMAIN data : data[k].value.den = 60
           /\ SeriesSeconds(data) = SecondsOf(timed)

\* a month dashboard of January 10th over a log with time spent on the 1st and
\* on the 10th: both days show on their own points, 4 minutes in all
TwoDaysOfJanuary ==
    /\ Answered
    /\ response.time_range = "month"
    /\ SeriesData[1].date = DateOf(2024, 1, 1)
    /\ SeriesData[1].value.num > 0
    /\ SeriesData[10].value.num > 0
    /\ SeriesSeconds(SeriesData) = 240
    /\ \A i \in DOMAIN userActivity : userActivity[i].timestamp >= DateTime(2024, 1, 1, 0)

\* -------------------------------------------------------------- qa claims
\* get_answer has finished for the question
Finished(q) == qa.result[q] # ""

\* C28: a question is stored as "pending"; once get_answer has finished for
\* it, the stored status is "completed", with an answer of the generator, when
\* get_answer returned, and "failed" when it raised (it raises when the
\* generator raised); a finished question is never "pending", and the
\* generator is called at most once per question asked.
QuestionSettled ==
    \A q \in QuestionIds :
        qa.docs[q].exists =>
          /\ qa.calls[q] <= 1
          /\ ~Finished(q) => qa.docs[q].status = "pending"
          /\ Finished(q) =>
               /\ qa.calls[q] = 1
               /\ qa.docs[q].status \in {"completed", "failed"}
               /\ qa.docs[q].status = "completed"
                    <=> (qa.result[q] = "returned" /\ qa.docs[q].answer \in Answers)
               /\ qa.docs[q].status = "failed"
                    <=> (qa.result[q] = "raised" /\ qa.docs[q].answer = "")

\* one question answered and another one failed, each after one generator call
AnsweredAndFailed ==
    /\ qa.pc = "idle"
    /\ \E q \in QuestionIds :
         qa.docs[q].status = "completed" /\ qa.docs[q].answer = "answer" /\ qa.calls[q] = 1
    /\ \E q \in QuestionIds :
         qa.docs[q].status = "failed" /\ qa.result[q] = "raised" /\ qa.calls[q] = 1

\* ----------------------------------------------------------- streak claims
\* the day has an event of the log that is in the last 30 days
ActiveDay(day, now) ==
    \E i \in DOMAIN userActivity :
        /\ Date(userActivity[i].timestamp) = day
        /\ userActivity[i].timestamp >= PlusDays(now, 0 - 30)

\* the number of consecutive active days counted back from today
ExpectedStreak(now) ==
    CHOOSE n \in 0..(StreakSpan + 1) :
        /\ \A k \in 0..(n - 1) : ActiveDay(Date(now) - k, now)
        /\ ~ActiveDay(Date(now) - n, now)

\* C29: with last_active set, streak_days is the number of consecutive
\* calendar days, counted back from today, that each have an activity event in
\* the last 30 days; it is 0 without an event today, and the count ends within
\* the 31 days that such events can fall on.
StreakCountsBackFromToday ==
    Unanswered =>
      \A now \in StreakNows :
        LET streak_days == StreakDays(userActivity, now, now)
        IN /\ streak_days = ExpectedStreak(now)
           /\ ~ActiveDay(Date(now), now) => streak_days = 0
           /\ streak_days <= 31

\* statistics answered over a log with an event on every day: the streak is
\* the 30 days whose events are in the last 30 days
ThirtyDayStreak ==
    /\ response.kind = "stats"
    /\ response.last_active # NoneVal
    /\ Len(userActivity) = StreakSpan
    /\ response.streak_days = 30

\* ------------------------------------------------------ my-lessons claims
\* the user's lesson sequence: the completed lessons of the catalog in the
\* order of their records when include_completed is set, then the lessons of
\* the catalog without a record
LessonSequence(include_completed) ==
    LET completed ==
            SelectSeq(completed_lessons, LAMBDA record : record.lesson_id \in lessons)
        new == SelectSeq(Stream(lessons),
                         LAMBDA id : id \notin CompletedLessonIds(learningProgress))
    IN (IF include_completed THEN [i \in DOMAIN completed |-> completed[i].lesson_id]
        ELSE <<>>) \o new

====
